---------------------------- MODULE Spec2Model ----------------------------
(***************************************************************************)
(* Registration service of src/server.js.                                  *)
(*                                                                         *)
(* server.js holds two versions of the service, one after the other:       *)
(*   variant 1 (lines 1-85):   JSON registration, no payment image,        *)
(*                             handlers without try/catch;                 *)
(*   variant 2 (lines 86-304): registration with a multer upload of a      *)
(*                             payment screenshot, handlers with try/catch.*)
(* The variable `variant` says which of the two is running.                *)
(*                                                                         *)
(* A request is handled by a client slot p \in Procs.  One step of the     *)
(* model is one piece of handler code that runs without yielding to the    *)
(* event loop, together with the store operation whose result it awaits    *)
(* (the store executes one operation atomically).                          *)
(***************************************************************************)
EXTENDS Integers, Sequences, FiniteSets, TLC

\* ------------------------------------------------------------------ bounds

\* The store assigns at most MaxId identifiers (inserts) in a run.
MaxId == 2

\* Date.now() ranges over 0..MaxClock: at most MaxClock uploads in a run.
MaxClock == 2

\* ------------------------------------------------------- program constants

\* limits: { fileSize: 5 * 1024 * 1024 }, in MiB.
FileSizeLimitMiB == 5

\* ------------------------------------------------------------------ inputs

Procs == {"c1", "c2"}

Variants == {1, 2}

\* (email, gender, experience, participation, age) of the people who
\* register; the text of the age field has one character per element.
Profiles ==
    { <<"a@x.com", "female", "beginner", "both", <<"2", "4">> >>,
      <<"b@x.com", "male", "expert", "workshop", <<"7", "x">> >>,
      <<"c@x.com", "other", "beginner", "spectator", <<"x">> >> }

Body(name, email, phone, age, gender, experience, participation) ==
    [name |-> name, email |-> email, phone |-> phone, age |-> age,
     gender |-> gender, experience |-> experience,
     participation |-> participation]

ValidBodies ==
    { Body("Ana", pr[1], "555", pr[5], pr[2], pr[3], pr[4]) : pr \in Profiles }

BaseBody == Body("Ana", "a@x.com", "555", <<"2", "4">>, "female", "beginner", "both")

FieldNames ==
    {"name", "email", "phone", "age", "gender", "experience", "participation"}

\* A field that is absent from the form, or sent empty.
Blank(f) == IF f = "age" THEN <<>> ELSE ""

\* BaseBody with exactly one of the seven fields missing.
InvalidBodies == { [BaseBody EXCEPT ![f] = Blank(f)] : f \in FieldNames }

Bodies == ValidBodies \cup InvalidBodies

\* The attachment of a request: none, or a file (mimetype split at "/").
NoUpload == [present |-> FALSE, mimetype |-> <<"", "">>, sizeMiB |-> 0, originalname |-> ""]

Uploads ==
    { NoUpload,
      [present |-> TRUE, mimetype |-> <<"image", "png">>, sizeMiB |-> 1, originalname |-> "pay.png"],
      [present |-> TRUE, mimetype |-> <<"text", "plain">>, sizeMiB |-> 1, originalname |-> "pay.txt"],
      [present |-> TRUE, mimetype |-> <<"image", "png">>, sizeMiB |-> 6, originalname |-> "pay.png"] }

\* The :id path parameter.  n >= 1 stands for the 24-hex-digit text of the
\* n-th identifier the store assigns; Malformed for text that is no
\* identifier (new ObjectId throws on it).
Malformed == 0 - 1

IdParams == (1..MaxId) \cup {Malformed}


\* ----------------------------------------------------------- pure functions

\* JavaScript's !v for the text of a form field: true of the empty text.
Falsy(v) == Len(v) = 0

\* if (!name || !email || !phone || !age || !gender || !experience || !participation)
MissingRequiredMutant(body) ==
    \E f \in FieldNames \ {"participation"} : Falsy(body[f])

MissingRequired(body) ==
    \E f \in FieldNames : Falsy(body[f])

Digits == {"0", "1", "2", "3", "4", "5", "6", "7", "8", "9"}

DigitVal(c) ==
    CASE c = "0" -> 0 [] c = "1" -> 1 [] c = "2" -> 2 [] c = "3" -> 3
      [] c = "4" -> 4 [] c = "5" -> 5 [] c = "6" -> 6 [] c = "7" -> 7
      [] c = "8" -> 8 [] c = "9" -> 9

\* NaN, the result of parseInt on text that starts with no digit.
NaN == 0 - 1

RECURSIVE LeadingDigits(_, _)
LeadingDigits(text, acc) ==
    IF text = <<>> \/ Head(text) \notin Digits
    THEN acc
    ELSE LeadingDigits(Tail(text), 10 * acc + DigitVal(Head(text)))

\* parseInt(age): the value of the leading decimal digits, NaN without any.
ParseInt(text) ==
    IF text = <<>> \/ Head(text) \notin Digits
    THEN NaN
    ELSE LeadingDigits(text, 0)

\* fileFilter: file.mimetype.startsWith("image/")
FileFilter(file) == file.mimetype[1] = "image"

\* limits.fileSize
WithinSizeLimit(file) == file.sizeMiB <= FileSizeLimitMiB

\* req.file.path of no file.
NoPath == <<>>

\* `${Date.now()}_${req.body.phone}_${file.originalname}` in paymentsDir.
\* The text fields are taken to precede the file in the multipart body, so
\* that req.body.phone is set when multer names the file, and the clock to
\* have advanced between two uploads, so that no two uploads get one name.
UniqueName(t, body, file) == <<t, body.phone, file.originalname>>

\* The document insertOne is given; _id is the store's.
NewUserMutant(id, body, path) ==
    [_id |-> id, name |-> body.name, email |-> body.name, phone |-> body.phone,
     age |-> ParseInt(body.age), gender |-> body.gender,
     experience |-> body.experience, participation |-> body.participation,
     paymentScreenshotPath |-> path]

NewUser(id, body, path) ==
    [_id |-> id, name |-> body.name, email |-> body.email, phone |-> body.phone,
     age |-> ParseInt(body.age), gender |-> body.gender,
     experience |-> body.experience, participation |-> body.participation,
     paymentScreenshotPath |-> path]

\* find({email}) / find({_id})
ByEmailMutant(coll, email) == { u \in coll : u.name = email }

ByEmail(coll, email) == { u \in coll : u.email = email }

ById(coll, id) == { u \in coll : u._id = id }

\* new ObjectId(req.params.id) throws unless the text is an identifier.
ObjectIdThrows(param) == param = Malformed

\* countDocuments() and the five filtered counts of /stats, in source order.
CountTotal(coll) == Cardinality(coll)

CountMaleMutant(coll) == Cardinality(coll)

CountMale(coll) == Cardinality({ u \in coll : u.gender = "male" })

CountFemale(coll) == Cardinality({ u \in coll : u.gender = "female" })

CountBeginners(coll) == Cardinality({ u \in coll : u.experience = "beginner" })

CountCompetition(coll) ==
    Cardinality({ u \in coll : u.participation \in {"competition", "both"} })

CountWorkshopMutant(coll) ==
    Cardinality({ u \in coll : u.participation = "workshop" })

CountWorkshop(coll) ==
    Cardinality({ u \in coll : u.participation \in {"workshop", "both"} })

\* The k-th count query of /stats (k = 1..6).
StatsQuery(k, coll) ==
    CASE k = 1 -> CountTotal(coll)
      [] k = 2 -> CountMale(coll)
      [] k = 3 -> CountFemale(coll)
      [] k = 4 -> CountBeginners(coll)
      [] k = 5 -> CountCompetition(coll)
      [] k = 6 -> CountWorkshop(coll)

NumStatsQueries == 6

\* ------------------------------------------------------------ responses

NoData == <<>>

\* No request: the slot is idle.
NoReq == [kind |-> "none", body |-> BaseBody, file |-> NoPath, id |-> 0]

\* res.status(s).json({message: m})
Json(s, m) == [status |-> s, json |-> TRUE, message |-> m, data |-> NoData]

\* No handler ended.
NoRes == [req |-> NoReq, status |-> 0, json |-> FALSE, message |-> "", data |-> NoData]

MsgRequired == "All fields are required"
MsgNoShot == "Payment screenshot is required"
MsgDuplicate == "User already registered with this email"
MsgRegistered1 == "Registration successful! See you at the festival!"
MsgRegistered2 == "Registration successful! Payment verification in progress. See you at the festival!"
MsgRegFailed == "Registration failed: "
MsgUsersFailed == "Failed to fetch users"
MsgStatsFailed == "Failed to fetch statistics"
MsgDeleted == "User deleted successfully"
MsgDelFailed == "Failed to delete user"
MsgTooLarge == "File size is too large. Maximum size is 5MB."
MsgNotImage == "Only image files are allowed!"
MsgRunning == "Calisthenics Festival API"

\* ------------------------------------------------------------------ state

VARIABLES
    variant,          \* which of the two versions of server.js runs
    alive,            \* the node process runs (FALSE once it has exited)
    conn,             \* client.connect(): "pending", "ok" or "failed"
    usersCollection,  \* the handle: "undefined" until connectDB assigns it
    users,            \* the documents of registrationDB.users
    nextId,           \* the next _id the store assigns
    files,            \* the paths that exist in paymentsDir
    now,              \* Date.now()
    pc,               \* per client slot: where its request's handler stands
    req,              \* per client slot: the request being handled
    loc,              \* per client slot: the handler's local variables
    res,              \* what the latest step sent: a response, with the
                      \* request it answers; status 0 with a request: the
                      \* handler of that request ended without answering it;
                      \* NoRes: no handler ended in that step
    overtaken         \* history: the client slots whose request was under way
                      \* when the insertOne or deleteOne of another request
                      \* changed the collection

vars ==
    <<variant, alive, conn, usersCollection, users, nextId, files, now,
      pc, req, loc, res, overtaken>>

\* existing / user: the empty set for null, else the one document found;
\* counts: the results of the /stats queries awaited so far.
NoLoc == [found |-> {}, counts |-> <<>>]

Init ==
    /\ variant \in Variants
    /\ alive = TRUE
    /\ conn = "pending"
    /\ usersCollection = "undefined"
    /\ users = {}
    /\ nextId = 1
    /\ files = {}
    /\ now = 0
    /\ pc = [p \in Procs |-> "idle"]
    /\ req = [p \in Procs |-> NoReq]
    /\ loc = [p \in Procs |-> NoLoc]
    /\ res = NoRes
    /\ overtaken = {}

\* -------------------------------------------------------- ends of a handler

\* res.json(...) / res.status(...).json(...) to request rq: the handler is over.
Respond(p, rq, r) ==
    /\ pc' = [pc EXCEPT ![p] = "idle"]
    /\ res' = [req |-> rq] @@ r
    /\ req' = [req EXCEPT ![p] = NoReq]
    /\ loc' = [loc EXCEPT ![p] = NoLoc]
    /\ alive' = alive

\* The history variable after a step: the slots in s, less those whose
\* handler is over.
Settled(s) == s \ { q \in Procs : pc'[q] = "idle" }

\* The handlers between their request and their response.
UnderWay == { q \in Procs : pc[q] # "idle" }

\* The handler is over and has sent nothing.
Unanswered == [status |-> 0, json |-> FALSE, message |-> "", data |-> NoData]

\* The node process ends: the handlers under way end with it.
Exit ==
    /\ alive' = FALSE
    /\ pc' = [p \in Procs |-> "idle"]
    /\ req' = [p \in Procs |-> NoReq]
    /\ loc' = [p \in Procs |-> NoLoc]

\* What express's default error handler sends: status 500, an HTML body.
DefaultErrorPage == [status |-> 500, json |-> FALSE, message |-> "", data |-> NoData]

\* An exception that leaves an async handler with no try/catch (variant 1)
\* is a rejected promise nobody handles.  What follows depends on the
\* express and node versions, which the repository does not pin: express 4
\* ignores it and the request is never answered; node >= 15 ends the
\* process on it; express 5 passes it to the default error handler.
Unhandled(p, rq) ==
    \/ Respond(p, rq, Unanswered)
    \/ /\ Exit
       /\ res' = [req |-> rq] @@ Unanswered
    \/ Respond(p, rq, DefaultErrorPage)

\* An exception in the handler of rq: caught by the try/catch of variant 2,
\* which answers 500 with msg; unhandled in variant 1.
Thrown(p, rq, msg) ==
    IF variant = 2 THEN Respond(p, rq, Json(500, msg)) ELSE Unhandled(p, rq)

\* findOne(filter): null, or one of the matching documents.
FindOneMutant(matching) == {{}}

FindOne(matching) ==
    IF matching = {} THEN {{}} ELSE { {u} : u \in matching }

\* ---------------------------------------------------------------- startup

\* connectDB(), lines 16-18 / 160-162: client.connect() resolves.
ConnectSucceeds ==
    /\ alive /\ conn = "pending"
    /\ conn' = "ok"
    /\ usersCollection' = "collection"
    /\ res' = NoRes
    /\ UNCHANGED <<variant, alive, users, nextId, files, now, pc, req, loc>>
    /\ overtaken' = Settled(overtaken)

\* client.connect() rejects.  Variant 2 catches and calls process.exit(1);
\* in variant 1 the rejection of connectDB() is unhandled: node >= 15 ends
\* the process, older node goes on with the handle undefined.
ConnectFails ==
    /\ alive /\ conn = "pending"
    /\ conn' = "failed"
    /\ \/ Exit
       \/ variant = 1 /\ UNCHANGED <<alive, pc, req, loc>>
    /\ res' = NoRes
    /\ UNCHANGED <<variant, usersCollection, users, nextId, files, now>>
    /\ overtaken' = Settled(overtaken)

\* ---------------------------------------------------------- POST /register

UploadsOf(v) == IF v = 2 THEN Uploads ELSE {NoUpload}

RegisterReq(body, path) ==
    [kind |-> "register", body |-> body, file |-> path, id |-> 0]

\* A registration arrives.  Variant 2 runs upload.single("paymentScreenshot")
\* first: an attachment that passes fileFilter and the size limit is written
\* to paymentsDir under its generated name, and then the handler is called.
\* Variant 1 has no upload middleware and takes JSON bodies only.  The
\* handler runs up to its first await: the required-field check, the check
\* of req.file (variant 2), and the call of usersCollection.findOne, which
\* throws a TypeError while the handle is undefined.
RegisterArrives(p) ==
    /\ alive /\ pc[p] = "idle"
    /\ \E body \in Bodies, up \in UploadsOf(variant) :
          LET path == IF up.present THEN UniqueName(now + 1, body, up) ELSE NoPath
              rq == RegisterReq(body, path)
          IN  /\ up.present => FileFilter(up) /\ WithinSizeLimit(up) /\ now < MaxClock
              /\ now' = IF up.present THEN now + 1 ELSE now
              /\ files' = IF up.present THEN files \cup {path} ELSE files
              /\ IF MissingRequired(body)
                 THEN Respond(p, rq, Json(400, MsgRequired))
                 ELSE IF variant = 2 /\ path = NoPath
                 THEN Respond(p, rq, Json(400, MsgNoShot))
                 ELSE IF usersCollection = "undefined"
                 THEN Thrown(p, rq, MsgRegFailed)
                 ELSE /\ pc' = [pc EXCEPT ![p] = "reg_finding"]
                      /\ req' = [req EXCEPT ![p] = rq]
                      /\ res' = NoRes
                      /\ UNCHANGED <<loc, alive>>
    /\ UNCHANGED <<variant, conn, usersCollection, users, nextId>>
    /\ overtaken' = Settled(overtaken)

\* multer rejects the attachment (fileFilter's Error, or LIMIT_FILE_SIZE, in
\* which case multer removes what it wrote); the error-handling middleware
\* of lines 286-299 answers 400 and the handler is not called: the form
\* fields of the request play no part, and are not recorded.
UploadRejected(p) ==
    /\ alive /\ pc[p] = "idle" /\ variant = 2
    /\ \E up \in Uploads :
          /\ up.present
          /\ ~(FileFilter(up) /\ WithinSizeLimit(up))
          /\ Respond(p, RegisterReq(BaseBody, NoPath),
                     Json(400, IF FileFilter(up) THEN MsgTooLarge ELSE MsgNotImage))
    /\ UNCHANGED <<variant, conn, usersCollection, users, nextId, files, now>>
    /\ overtaken' = Settled(overtaken)

\* The store executes findOne({ email }) and the handler goes on.
\* if (existing): variant 2 removes the uploaded file (unlinkSync throws
\* when the path does not exist) and answers 400; variant 1 answers 200.
\* Otherwise the handler calls insertOne.
RegisterLookup(p) ==
    /\ alive /\ pc[p] = "reg_finding"
    /\ \E existing \in FindOne(ByEmail(users, req[p].body.email)) :
          IF existing = {}
          THEN /\ pc' = [pc EXCEPT ![p] = "reg_inserting"]
               /\ res' = NoRes
               /\ UNCHANGED <<files, req, loc, alive>>
          ELSE IF variant = 1
          THEN /\ Respond(p, req[p], Json(200, MsgDuplicate))
               /\ files' = files
          ELSE IF req[p].file \in files
          THEN /\ files' = files \ {req[p].file}
               /\ Respond(p, req[p], Json(400, MsgDuplicate))
          ELSE /\ files' = files
               /\ Respond(p, req[p], Json(500, MsgRegFailed))
    /\ UNCHANGED <<variant, conn, usersCollection, users, nextId, now>>
    /\ overtaken' = Settled(overtaken)

\* The store fails the findOne (the promise rejects).
RegisterLookupFails(p) ==
    /\ alive /\ pc[p] = "reg_finding"
    /\ Thrown(p, req[p], MsgRegFailed)
    /\ UNCHANGED <<variant, conn, usersCollection, users, nextId, files, now>>
    /\ overtaken' = Settled(overtaken)

\* The store executes the insertOne; the success response.
RegisterInsert(p) ==
    /\ alive /\ pc[p] = "reg_inserting"
    /\ nextId <= MaxId
    /\ users' = users \cup {NewUser(nextId, req[p].body, req[p].file)}
    /\ nextId' = nextId + 1
    /\ Respond(p, req[p], Json(200, IF variant = 1 THEN MsgRegistered1 ELSE MsgRegistered2))
    /\ UNCHANGED <<variant, conn, usersCollection, files, now>>
    /\ overtaken' = Settled(IF users' = users THEN overtaken
                                              ELSE overtaken \cup UnderWay)

\* The store fails the insertOne.
RegisterInsertFails(p) ==
    /\ alive /\ pc[p] = "reg_inserting"
    /\ Thrown(p, req[p], MsgRegFailed)
    /\ UNCHANGED <<variant, conn, usersCollection, users, nextId, files, now>>
    /\ overtaken' = Settled(overtaken)

\* -------------------------------------------------------------- GET /users

UsersReq == [NoReq EXCEPT !.kind = "users"]

\* find().toArray() and res.json(users).
ListRegistrations(p) ==
    /\ alive /\ pc[p] = "idle"
    /\ IF usersCollection = "undefined"
       THEN Thrown(p, UsersReq, MsgUsersFailed)
       ELSE Respond(p, UsersReq,
                    [status |-> 200, json |-> TRUE, message |-> "", data |-> users])
    /\ UNCHANGED <<variant, conn, usersCollection, users, nextId, files, now>>
    /\ overtaken' = Settled(overtaken)

\* The store fails the find.
ListFails(p) ==
    /\ alive /\ pc[p] = "idle"
    /\ usersCollection # "undefined"
    /\ Thrown(p, UsersReq, MsgUsersFailed)
    /\ UNCHANGED <<variant, conn, usersCollection, users, nextId, files, now>>
    /\ overtaken' = Settled(overtaken)

\* -------------------------------------------------------------- GET /stats

StatsReq == [NoReq EXCEPT !.kind = "stats"]

\* A /stats request may start when no other is under way.
StatsMayRun(p) ==
    \/ pc[p] = "stats"
    \/ pc[p] = "idle" /\ \A q \in Procs : pc[q] # "stats"

\* A /stats request arrives and its first countDocuments is executed, or
\* the next `await usersCollection.countDocuments(...)` of the request under
\* way is; after the sixth, res.json of the six results.
StatsCount(p) ==
    /\ alive /\ StatsMayRun(p)
    /\ IF usersCollection = "undefined"
       THEN Thrown(p, StatsReq, MsgStatsFailed)
       ELSE LET counts == Append(loc[p].counts,
                                 StatsQuery(Len(loc[p].counts) + 1, users))
            IN  IF Len(counts) = NumStatsQueries
                THEN Respond(p, StatsReq,
                             [status |-> 200, json |-> TRUE, message |-> "",
                              data |-> counts])
                ELSE /\ loc' = [loc EXCEPT ![p].counts = counts]
                     /\ pc' = [pc EXCEPT ![p] = "stats"]
                     /\ req' = [req EXCEPT ![p] = StatsReq]
                     /\ res' = NoRes
                     /\ alive' = alive
    /\ UNCHANGED <<variant, conn, usersCollection, users, nextId, files, now>>
    /\ overtaken' = Settled(overtaken)

\* The store fails a countDocuments.
StatsFails(p) ==
    /\ alive /\ StatsMayRun(p)
    /\ usersCollection # "undefined"
    /\ Thrown(p, StatsReq, MsgStatsFailed)
    /\ UNCHANGED <<variant, conn, usersCollection, users, nextId, files, now>>
    /\ overtaken' = Settled(overtaken)

\* ------------------------------------------------------- DELETE /users/:id

DeleteReq(id) == [NoReq EXCEPT !.kind = "delete", !.id = id]

\* Variant 2, lines 266-268: a delete request arrives; new ObjectId of its
\* parameter, then the findOne by _id, executed by the store.
DeleteLookup(p) ==
    /\ alive /\ pc[p] = "idle" /\ variant = 2
    /\ \E id \in IdParams :
          IF ObjectIdThrows(id) \/ usersCollection = "undefined"
          THEN Thrown(p, DeleteReq(id), MsgDelFailed)
          ELSE \E e \in FindOne(ById(users, id)) :
                  /\ pc' = [pc EXCEPT ![p] = "del_found"]
                  /\ req' = [req EXCEPT ![p] = DeleteReq(id)]
                  /\ loc' = [loc EXCEPT ![p].found = e]
                  /\ res' = NoRes
                  /\ alive' = alive
    /\ UNCHANGED <<variant, conn, usersCollection, users, nextId, files, now>>
    /\ overtaken' = Settled(overtaken)

\* The store fails the findOne.
DeleteLookupFails(p) ==
    /\ alive /\ pc[p] = "idle" /\ variant = 2
    /\ usersCollection # "undefined"
    /\ \E id \in IdParams :
          /\ ~ObjectIdThrows(id)
          /\ Thrown(p, DeleteReq(id), MsgDelFailed)
    /\ UNCHANGED <<variant, conn, usersCollection, users, nextId, files, now>>
    /\ overtaken' = Settled(overtaken)

\* The path unlinkSync is called on by lines 270-274: that of the document
\* found, if it has one and the file exists.
PathToUnlinkMutant(found, onDisk) == {}

PathToUnlink(found, onDisk) ==
    { u.paymentScreenshotPath : u \in found } \cap (onDisk \ {NoPath})

\* Variant 2, lines 270-276: the file of the document found is removed,
\* then deleteOne is issued.
DeleteUnlink(p) ==
    /\ alive /\ pc[p] = "del_found"
    /\ files' = files \ PathToUnlink(loc[p].found, files)
    /\ pc' = [pc EXCEPT ![p] = "del_deleting"]
    /\ res' = NoRes
    /\ UNCHANGED <<variant, alive, conn, usersCollection, users, nextId, now, req, loc>>
    /\ overtaken' = Settled(overtaken)

\* The documents deleteOne({ _id }) removes.
DeletedBy(coll, id) == ById(coll, id)

\* Variant 2, line 276: the deleteOne issued is executed by the store; the
\* success response.
DeleteOne(p) ==
    /\ alive /\ pc[p] = "del_deleting"
    /\ users' = users \ DeletedBy(users, req[p].id)
    /\ Respond(p, req[p], Json(200, MsgDeleted))
    /\ UNCHANGED <<variant, conn, usersCollection, nextId, files, now>>
    /\ overtaken' = Settled(IF users' = users THEN overtaken
                                              ELSE overtaken \cup UnderWay)

\* Variant 1, lines 76-80: a delete request arrives; new ObjectId of its
\* parameter, deleteOne executed by the store, the success response.
DeleteOneV1(p) ==
    /\ alive /\ pc[p] = "idle" /\ variant = 1
    /\ \E id \in IdParams :
          IF ObjectIdThrows(id) \/ usersCollection = "undefined"
          THEN /\ Unhandled(p, DeleteReq(id))
               /\ users' = users
          ELSE /\ users' = users \ DeletedBy(users, id)
               /\ Respond(p, DeleteReq(id), Json(200, MsgDeleted))
    /\ UNCHANGED <<variant, conn, usersCollection, nextId, files, now>>
    /\ overtaken' = Settled(IF users' = users THEN overtaken
                                              ELSE overtaken \cup UnderWay)

\* The store fails the deleteOne.
DeleteOneFails(p) ==
    /\ alive
    /\ \/ /\ pc[p] = "del_deleting"
          /\ Thrown(p, req[p], MsgDelFailed)
       \/ /\ pc[p] = "idle" /\ variant = 1 /\ usersCollection # "undefined"
          /\ \E id \in IdParams :
                /\ ~ObjectIdThrows(id)
                /\ Thrown(p, DeleteReq(id), MsgDelFailed)
    /\ UNCHANGED <<variant, conn, usersCollection, users, nextId, files, now>>
    /\ overtaken' = Settled(overtaken)

\* ------------------------------------------------------------------- GET /

\* The health check of variant 2, lines 172-182.
Health(p) ==
    /\ alive /\ pc[p] = "idle" /\ variant = 2
    /\ Respond(p, [NoReq EXCEPT !.kind = "health"],
               [status |-> 200, json |-> TRUE, message |-> MsgRunning, data |-> NoData])
    /\ UNCHANGED <<variant, conn, usersCollection, users, nextId, files, now>>
    /\ overtaken' = Settled(overtaken)

\* ----------------------------------------------------------- specification

Step(p) ==
    \/ RegisterArrives(p)
    \/ UploadRejected(p)
    \/ RegisterLookup(p)
    \/ RegisterLookupFails(p)
    \/ RegisterInsert(p)
    \/ RegisterInsertFails(p)
    \/ ListRegistrations(p)
    \/ ListFails(p)
    \/ StatsCount(p)
    \/ StatsFails(p)
    \/ DeleteLookup(p)
    \/ DeleteLookupFails(p)
    \/ DeleteUnlink(p)
    \/ DeleteOne(p)
    \/ DeleteOneV1(p)
    \/ DeleteOneFails(p)
    \/ Health(p)

Next ==
    \/ ConnectSucceeds
    \/ ConnectFails
    \/ \E p \in Procs : Step(p)

Spec == Init /\ [][Next]_vars

\* No handler but p's is between its request and its response.
Alone(p) == \A q \in Procs \ {p} : pc[q] = "idle"

\* The service with its requests handled one at a time.
NextSerial ==
    \/ ConnectSucceeds
    \/ ConnectFails
    \/ \E p \in Procs :
          \/ Alone(p) /\ RegisterArrives(p)
          \/ Alone(p) /\ UploadRejected(p)
          \/ Alone(p) /\ RegisterLookup(p)
          \/ Alone(p) /\ RegisterLookupFails(p)
          \/ Alone(p) /\ RegisterInsert(p)
          \/ Alone(p) /\ RegisterInsertFails(p)
          \/ Alone(p) /\ ListRegistrations(p)
          \/ Alone(p) /\ ListFails(p)
          \/ Alone(p) /\ StatsCount(p)
          \/ Alone(p) /\ StatsFails(p)
          \/ Alone(p) /\ DeleteLookup(p)
          \/ Alone(p) /\ DeleteLookupFails(p)
          \/ Alone(p) /\ DeleteUnlink(p)
          \/ Alone(p) /\ DeleteOne(p)
          \/ Alone(p) /\ DeleteOneV1(p)
          \/ Alone(p) /\ DeleteOneFails(p)
          \/ Alone(p) /\ Health(p)

SpecSerial == Init /\ [][NextSerial]_vars

\* ------------------------------------------------------------- properties

\* A required field of the body is missing or empty.
LacksField(body) == \E f \in FieldNames : Len(body[f]) = 0

\* The records of coll registered under email.
Registered(coll, email) == { u \in coll : u.email = email }

\* The store operation of a request failed: the handler answered 500, or
\* ended without an answer.
Failed(r) == r.status \in {0, 500}

Succeeded(r) ==
    r.status = 200 /\ r.json /\ r.message \in {MsgRegistered1, MsgRegistered2}

\* The slot whose handler took the step.
Stepped(p) == pc'[p] # pc[p]

\* C1: a registration request that lacks at least one of the seven required
\* fields is answered with status 400 and a JSON message, and the collection
\* is after the answer what it was before it.  So is a request whose
\* attachment the upload middleware refuses, whatever its fields.
C1_MissingFieldRejected ==
    [][ /\ (res'.req.kind = "register" /\ LacksField(res'.req.body))
           => (res'.status = 400 /\ res'.json /\ users' = users)
        /\ res'.message \in {MsgTooLarge, MsgNotImage}
           => (res'.status = 400 /\ res'.json /\ users' = users) ]_vars

\* A request with an image and a missing field was answered 400 while the
\* collection held a record.
C1_Witness ==
    /\ res.req.kind = "register" /\ LacksField(res.req.body)
    /\ res.req.file # NoPath
    /\ res.status = 400
    /\ users # {}

\* C2 as written: a registration request with all seven fields and an email
\* that no record has, with an image or without one, handled while the store
\* handle is assigned, is answered with the success response and creates
\* exactly one record with that email, which the list then holds and which
\* raises the total by one.
C2_AnyCompleteRequestRegisters ==
    [][ ( /\ res'.req.kind = "register"
          /\ ~LacksField(res'.req.body)
          /\ res'.message \notin {MsgTooLarge, MsgNotImage}
          /\ usersCollection # "undefined"
          /\ Registered(users, res'.req.body.email) = {} )
        => ( /\ Succeeded(res')
             /\ \E u \in users' :
                   /\ u \notin users /\ users' = users \cup {u}
                   /\ Registered(users', res'.req.body.email) = {u}
             /\ CountTotal(users') = CountTotal(users) + 1 ) ]_vars

\* C2, amended: a registration request with all seven fields and, in
\* variant 2, an accepted payment image, handled with no other request
\* interleaved and whose email no record has, reaches the lookup and then
\* the insert unless a store operation fails (the handle is not assigned
\* yet, or the store rejects the findOne or the insertOne), in which case
\* nothing is created and the answer is not the success response; the
\* insert creates exactly one record, with that email and that image, the
\* answer is the success response, the list holds the record and the total
\* is one more than before.
C2_CompleteRequestRegisters ==
    [][ /\ ( /\ \A q \in Procs : pc[q] = "idle"
             /\ res'.req.kind = "register"
             /\ ~LacksField(res'.req.body)
             /\ variant = 2 => res'.req.file # NoPath )
           => (usersCollection = "undefined" /\ Failed(res') /\ users' = users)
        /\ \A p \in Procs :
              ( /\ pc[p] = "reg_finding" /\ Stepped(p)
                /\ Registered(users, req[p].body.email) = {} )
              => /\ users' = users
                 /\ \/ pc'[p] = "reg_inserting" /\ req'[p] = req[p]
                    \/ res'.req = req[p] /\ Failed(res')
        /\ \A p \in Procs :
              (pc[p] = "reg_inserting" /\ Stepped(p))
              => /\ ~LacksField(req[p].body)
                 /\ variant = 2 => req[p].file # NoPath
                 /\ res'.req = req[p]
                 /\ \/ Failed(res') /\ users' = users
                    \/ /\ Succeeded(res')
                       /\ \E u \in users' :
                             /\ u \notin users /\ users' = users \cup {u}
                             /\ Registered(users', req[p].body.email) = {u}
                             /\ u.paymentScreenshotPath = req[p].file
                       /\ CountTotal(users') = CountTotal(users) + 1 ]_vars

\* The second registration of a run, with its image, was answered with the
\* success response and the collection holds two records.
C2_Witness ==
    /\ variant = 2
    /\ res.req.kind = "register" /\ res.req.file # NoPath
    /\ Succeeded(res)
    /\ Cardinality(users) = 2
    /\ Cardinality(Registered(users, res.req.body.email)) = 1

\* C3: a registration request whose email a record already has, handled
\* with no other request interleaved, creates no record: the collection is
\* unchanged; its lookup is answered with the duplicate response unless the
\* store fails; and when the duplicate response is sent the file uploaded
\* with the request no longer exists.
C3_DuplicateRejected ==
    [][ /\ ( /\ res'.req.kind = "register"
             /\ Registered(users, res'.req.body.email) # {} )
           => /\ users' = users
              /\ res'.message = MsgDuplicate
                 => (res'.req.file = NoPath \/ res'.req.file \notin files')
        /\ \A p \in Procs :
              ( /\ pc[p] = "reg_finding" /\ Stepped(p)
                /\ Registered(users, req[p].body.email) # {} )
              => /\ res'.req = req[p]
                 /\ res'.message = MsgDuplicate \/ Failed(res') ]_vars

\* A request with an image was answered with the duplicate response and
\* its image is gone.
C3_Witness ==
    /\ res.req.kind = "register"
    /\ res.message = MsgDuplicate /\ res.status = 400
    /\ res.req.file # NoPath /\ res.req.file \notin files
    /\ Registered(users, res.req.body.email) # {}

\* C4 as written: in every statistics response, male + female <= total, and
\* total is the number of records the collection holds at that moment,
\* whatever is interleaved with the six count queries.
C4_StatsAlwaysConsistent ==
    (res.req.kind = "stats" /\ res.status = 200)
    => /\ res.data[2] + res.data[3] <= res.data[1]
       /\ res.data[1] = Cardinality(users)

\* C4, amended: in a statistics response whose six count queries had no
\* insert or delete of another request executed between them,
\* male + female <= total and total is the number of records the collection
\* holds.
C4_StatsConsistentWhenNotOvertaken ==
    [][ \A p \in Procs :
          ( /\ pc[p] = "stats" /\ Stepped(p)
            /\ p \notin overtaken
            /\ res'.status = 200 )
          => /\ res'.req.kind = "stats"
             /\ res'.data[2] + res'.data[3] <= res'.data[1]
             /\ res'.data[1] = Cardinality(users') ]_vars

\* A statistics response: two records, one male and one female.
C4_Witness ==
    /\ res.req.kind = "stats" /\ res.status = 200
    /\ res.data[1] = 2 /\ res.data[2] = 1 /\ res.data[3] = 1
    /\ Cardinality(users) = 2

\* The records of coll that take part in both.
Both(coll) == { u \in coll : u.participation = "both" }

\* C5 as written: competition + workshop - both is the number of records
\* with a non-empty participation value.
C5_CountsCoverNonEmpty ==
    CountCompetition(users) + CountWorkshop(users) - Cardinality(Both(users))
      = Cardinality({ u \in users : u.participation # "" })

\* C5, amended: competition + workshop - both is the number of records whose
\* participation value is "competition", "workshop" or "both"; a record with
\* another value is counted by neither query.
C5_CountsCoverRecognised ==
    CountCompetition(users) + CountWorkshop(users) - Cardinality(Both(users))
      = Cardinality({ u \in users :
                        u.participation \in {"competition", "workshop", "both"} })

\* The collection holds a record counted by both queries and a record
\* counted by neither.
C5_Witness ==
    /\ Both(users) # {}
    /\ \E u \in users : u.participation \notin {"competition", "workshop", "both"}

\* C6: a delete request with the identifier of a record that exists, once
\* answered with the success response: the collection is what it was less
\* that record, the image file of the record no longer exists, and a record
\* absent from the collection never comes back.
C6_DeleteRemoves ==
    [][ /\ (res'.req.kind = "delete" /\ res'.status = 200)
           => users' = { u \in users : u._id # res'.req.id }
        /\ \A p \in Procs :
              ( /\ pc[p] = "del_deleting" /\ Stepped(p)
                /\ res'.status = 200 )
              => /\ res'.req = req[p]
                 /\ \A u \in loc[p].found :
                       /\ u._id = req[p].id
                       /\ u \notin users'
                       /\ u.paymentScreenshotPath # NoPath
                          => u.paymentScreenshotPath \notin files'
        /\ \A id \in 1..MaxId :
              (id < nextId /\ ById(users, id) = {}) => ById(users', id) = {} ]_vars

\* Two records were registered with their images; one was deleted: its
\* record and its image are gone, the other record and its image remain.
C6_Witness ==
    /\ variant = 2
    /\ res.req.kind = "delete" /\ res.status = 200
    /\ nextId = 3 /\ res.req.id \in 1..2
    /\ Cardinality(users) = 1 /\ ById(users, res.req.id) = {}
    /\ files = { u.paymentScreenshotPath : u \in users }

\* C7, the malformed identifier: a delete request whose identifier is
\* malformed, handled once the store handle is assigned, is answered with
\* an error status and a JSON message, and changes neither the collection
\* nor the files.
C7_MalformedIdAnswered ==
    [][ ( /\ res'.req.kind = "delete" /\ res'.req.id = Malformed
          /\ usersCollection # "undefined" )
        => /\ res'.status >= 400 /\ res'.json /\ res'.message # ""
           /\ users' = users /\ files' = files ]_vars

\* C8: a second record with the email of a stored record is only ever
\* inserted by a request that was overtaken: between its lookup and its
\* insert the store executed the insert of another request.  Requests that
\* are not interleaved keep at most one record per email.
C8_DuplicateOnlyWhenOvertaken ==
    [][ \A p \in Procs :
          ( /\ pc[p] = "reg_inserting"
            /\ users' # users
            /\ Registered(users, req[p].body.email) # {} )
          => p \in overtaken ]_vars

\* The race has happened: two records have one email.
C8_Witness ==
    \E u, v \in users : u # v /\ u.email = v.email

\* C9: when a registration request with an uploaded file is answered with
\* an error, the uploaded file does not exist any more.
C9_UploadRemovedOnFailure ==
    ( /\ res.req.kind = "register"
      /\ res.req.file # NoPath
      /\ res.status >= 400 )
    => res.req.file \notin files

\* C10: the service handles a request only once the connection to the store
\* is established: no handler that uses the store (those of /users and /stats
\* call it first thing) ends while the store handle is unassigned.
C10_ServesOnlyWhenConnected ==
    res.req.kind \in {"users", "stats"} => usersCollection # "undefined"

=============================================================================
